---- MODULE Spec2Model ----
(***************************************************************************)
(* Model of fix_encoding.py: a script that repairs mojibake in one file.   *)
(* The file is read as UTF-8 text, the text is encoded to cp1252 and the   *)
(* bytes decoded as UTF-8, and the result is written back over the file.   *)
(*                                                                         *)
(* Bytes and code points are integers.  The file on disk is a sequence of  *)
(* bytes, with a flag telling whether the path names a file at all.  An    *)
(* invocation of the script is a process whose pc is the statement it is   *)
(* about to execute.                                                       *)
(***************************************************************************)
EXTENDS Integers, Sequences, FiniteSets, TLC

\* ------------------------------------------------------------ bounds
\* Longest initial file, in bytes, of the single-invocation specification.
MaxLen == 4
\* Longest initial file, in bytes, when two invocations share the path.
MaxLenConc == 3
\* Longest original text (in characters) the round-trip law is tried on.
MaxTextLen == 2

\* The bytes initial files are made of: 'h', CR, LF, and the UTF-8 lead and
\* continuation bytes 0xC3, 0x83, 0xC2, 0xA9 (so that "é" = C3 A9, its
\* mojibake "Ã©" = C3 83 C2 A9, U+0083 = C2 83 and ill-formed sequences all
\* occur).
ByteAlphabet == {104, 13, 10, 195, 131, 194, 169}

\* The characters original texts are made of: 'h', CR, LF, 'é'.
TextAlphabet == {104, 13, 10, 233}

SeqsUpTo(S, n) == UNION {[1..k -> S] : k \in 0..n}

\* ------------------------------------------------------------ codecs

\* Number of bytes of the UTF-8 sequence a lead byte announces; 0 when the
\* byte cannot start a sequence (continuation bytes, C0, C1, F5..FF).
Utf8SeqLen(b) ==
    IF b < 128 THEN 1
    ELSE IF b >= 194 /\ b <= 223 THEN 2
    ELSE IF b >= 224 /\ b <= 239 THEN 3
    ELSE IF b >= 240 /\ b <= 244 THEN 4
    ELSE 0

IsCont(b) == b >= 128 /\ b <= 191

\* The strict decoder's checks on the bytes after the lead byte: no overlong
\* forms, no surrogates, nothing above U+10FFFF.
Utf8WellFormed(bs, i, n) ==
    /\ \A k \in 1..(n - 1) : IsCont(bs[i + k])
    /\ (bs[i] = 224) => bs[i + 1] >= 160
    /\ (bs[i] = 237) => bs[i + 1] <= 159
    /\ (bs[i] = 240) => bs[i + 1] >= 144
    /\ (bs[i] = 244) => bs[i + 1] <= 143

Utf8CodePoint(bs, i, n) ==
    IF n = 1 THEN bs[i]
    ELSE IF n = 2 THEN (bs[i] - 192) * 64 + (bs[i + 1] - 128)
    ELSE IF n = 3 THEN (bs[i] - 224) * 4096 + (bs[i + 1] - 128) * 64
                       + (bs[i + 2] - 128)
    ELSE (bs[i] - 240) * 262144 + (bs[i + 1] - 128) * 4096
         + (bs[i + 2] - 128) * 64 + (bs[i + 3] - 128)

\* bytes.decode('utf-8'), errors='strict': the text, or ok = FALSE where
\* Python raises UnicodeDecodeError.
RECURSIVE Utf8DecodeFrom(_, _)
Utf8DecodeFrom(bs, i) ==
    IF i > Len(bs) THEN [ok |-> TRUE, text |-> <<>>]
    ELSE LET n == Utf8SeqLen(bs[i]) IN
         IF n = 0 \/ i + n - 1 > Len(bs) THEN [ok |-> FALSE, text |-> <<>>]
         ELSE IF ~Utf8WellFormed(bs, i, n) THEN [ok |-> FALSE, text |-> <<>>]
         ELSE LET rest == Utf8DecodeFrom(bs, i + n) IN
              IF rest.ok
              THEN [ok |-> TRUE, text |-> <<Utf8CodePoint(bs, i, n)>> \o rest.text]
              ELSE rest

Utf8Decode(bs) == Utf8DecodeFrom(bs, 1)

\* str.encode('utf-8') of one character.
Utf8EncodeChar(c) ==
    IF c < 128 THEN <<c>>
    ELSE IF c < 2048 THEN <<192 + (c \div 64), 128 + (c % 64)>>
    ELSE IF c < 65536
         THEN <<224 + (c \div 4096), 128 + ((c \div 64) % 64), 128 + (c % 64)>>
    ELSE <<240 + (c \div 262144), 128 + ((c \div 4096) % 64),
           128 + ((c \div 64) % 64), 128 + (c % 64)>>

RECURSIVE Utf8Encode(_)
Utf8Encode(text) ==
    IF text = <<>> THEN <<>>
    ELSE Utf8EncodeChar(Head(text)) \o Utf8Encode(Tail(text))

\* The cp1252 code page, bytes 0x80..0x9F: <<byte, character>>.  Bytes 0x81,
\* 0x8D, 0x8F, 0x90 and 0x9D are unassigned.  Below 0x80 and from 0xA0 up a
\* byte is the character of the same number.
Cp1252High ==
    { <<128, 8364>>, <<130, 8218>>, <<131, 402>>,  <<132, 8222>>,
      <<133, 8230>>, <<134, 8224>>, <<135, 8225>>, <<136, 710>>,
      <<137, 8240>>, <<138, 352>>,  <<139, 8249>>, <<140, 338>>,
      <<142, 381>>,  <<145, 8216>>, <<146, 8217>>, <<147, 8220>>,
      <<148, 8221>>, <<149, 8226>>, <<150, 8211>>, <<151, 8212>>,
      <<152, 732>>,  <<153, 8482>>, <<154, 353>>,  <<155, 8250>>,
      <<156, 339>>,  <<158, 382>>,  <<159, 376>> }

\* The set of bytes (empty or a singleton) that encode character c in cp1252.
Cp1252BytesOf(c) ==
    IF c < 128 \/ (c >= 160 /\ c <= 255) THEN {c}
    ELSE {m[1] : m \in {x \in Cp1252High : x[2] = c}}

\* str.encode('cp1252'), errors='strict': the bytes, or ok = FALSE where
\* Python raises UnicodeEncodeError.
RECURSIVE Cp1252Encode(_)
Cp1252Encode(text) ==
    IF text = <<>> THEN [ok |-> TRUE, bytes |-> <<>>]
    ELSE LET bset == Cp1252BytesOf(Head(text)) IN
         IF bset = {} THEN [ok |-> FALSE, bytes |-> <<>>]
         ELSE LET rest == Cp1252Encode(Tail(text)) IN
              IF rest.ok
              THEN [ok |-> TRUE, bytes |-> <<CHOOSE b \in bset : TRUE>> \o rest.bytes]
              ELSE rest

\* Text-mode reading with newline=None: "\r\n" and "\r" become "\n".
RECURSIVE UniversalNewlines(_)
UniversalNewlines(text) ==
    IF text = <<>> THEN <<>>
    ELSE IF Head(text) = 13
         THEN IF Len(text) >= 2 /\ text[2] = 10
              THEN <<10>> \o UniversalNewlines(Tail(Tail(text)))
              ELSE <<10>> \o UniversalNewlines(Tail(text))
    ELSE <<Head(text)>> \o UniversalNewlines(Tail(text))

\* Text-mode writing with newline=None: "\n" becomes os.linesep.
RECURSIVE WriteNewlines(_, _)
WriteNewlines(text, sep) ==
    IF text = <<>> THEN <<>>
    ELSE IF Head(text) = 10 THEN sep \o WriteNewlines(Tail(text), sep)
    ELSE <<Head(text)>> \o WriteNewlines(Tail(text), sep)

\* The values os.linesep has: "\n" (POSIX) or "\r\n" (Windows).
LineSeps == {<<10>>, <<13, 10>>}

\* What f.read() returns for a file holding bs, opened 'r', encoding='utf-8'.
ReadText(bs) ==
    LET d == Utf8Decode(bs) IN
    IF d.ok THEN [ok |-> TRUE, text |-> UniversalNewlines(d.text)] ELSE d

\* The bytes f.write(text) puts in a file opened 'w', encoding='utf-8'.
WriteBytes(text, sep) == Utf8Encode(WriteNewlines(text, sep))

\* ------------------------------------------------------------ state

\* The invocations of the script against the one path.
Procs == {"A", "B"}

VARIABLES
    exists,         \* the path names a file
    disk,           \* the file's bytes (<<>> while the path names nothing)
    linesep,        \* os.linesep of the platform
    pc,             \* per invocation: the statement it is about to execute
    content,        \* per invocation: the variable content
    raw,            \* per invocation: the value of content.encode('cp1252')
    fixed_content,  \* per invocation: the variable fixed_content
    exc,            \* per invocation: the class of the exception raised
    out,            \* per invocation: the lines printed, by category
    rh,             \* per invocation: the read handle is open
    wh,             \* per invocation: the write handle is open
    orig,           \* history: the file as it was when the run started
    failed,         \* history, per invocation: the stage that raised
    trace,          \* history, per invocation: the steps taken, in order
    lastWriter      \* history: the invocations whose f.write completed, in order

vars == <<exists, disk, linesep, pc, content, raw, fixed_content, exc, out,
          rh, wh, orig, failed, trace, lastWriter>>

locals == <<content, raw, fixed_content>>
fileVars == <<exists, disk>>

\* ------------------------------------------------------------ steps

\* An exception of class e raised at the given stage: control passes to the
\* except clauses.
Raise(p, e, stage) ==
    /\ exc' = [exc EXCEPT ![p] = e]
    /\ failed' = [failed EXCEPT ![p] = stage]
    /\ pc' = [pc EXCEPT ![p] = "except"]

Goto(p, label) ==
    /\ pc' = [pc EXCEPT ![p] = label]
    /\ UNCHANGED <<exc, failed>>

\* The history of an invocation: the names of the steps it took.
Log(p, ev) == trace' = [trace EXCEPT ![p] = Append(@, ev)]

\* with open(file_path, 'r', encoding='utf-8') as f:
OpenRead(p) ==
    /\ pc[p] = "open_r"
    /\ exists
    /\ rh' = [rh EXCEPT ![p] = TRUE]
    /\ Goto(p, "read")
    /\ Log(p, "OpenRead")
    /\ UNCHANGED <<fileVars, linesep, locals, out, wh, orig, lastWriter>>

\* open() on a path that names nothing raises FileNotFoundError.
OpenReadMissing(p) ==
    /\ pc[p] = "open_r"
    /\ ~exists
    /\ Raise(p, "FileNotFoundError", "read")
    /\ Log(p, "OpenReadMissing")
    /\ UNCHANGED <<fileVars, linesep, locals, out, rh, wh, orig, lastWriter>>

\* open() on a file the user may not read raises PermissionError.
OpenReadDenied(p) ==
    /\ pc[p] = "open_r"
    /\ exists
    /\ Raise(p, "PermissionError", "read")
    /\ Log(p, "OpenReadDenied")
    /\ UNCHANGED <<fileVars, linesep, locals, out, rh, wh, orig, lastWriter>>

\* content = f.read(), and the with block's exit closes the handle.
Read(p) ==
    /\ pc[p] = "read"
    /\ ReadText(disk).ok
    /\ content' = [content EXCEPT ![p] = ReadText(disk).text]
    /\ rh' = [rh EXCEPT ![p] = FALSE]
    /\ Goto(p, "encode")
    /\ Log(p, "Read")
    /\ UNCHANGED <<fileVars, linesep, raw, fixed_content, out, wh, orig, lastWriter>>

\* f.read() raises UnicodeDecodeError; the with block's exit closes the handle.
ReadFail(p) ==
    /\ pc[p] = "read"
    /\ ~ReadText(disk).ok
    /\ rh' = [rh EXCEPT ![p] = FALSE]
    /\ Raise(p, "UnicodeDecodeError", "read")
    /\ Log(p, "ReadFail")
    /\ UNCHANGED <<fileVars, linesep, locals, out, wh, orig, lastWriter>>

\* content.encode('cp1252')
Encode(p) ==
    /\ pc[p] = "encode"
    /\ Cp1252Encode(content[p]).ok
    /\ raw' = [raw EXCEPT ![p] = Cp1252Encode(content[p]).bytes]
    /\ Goto(p, "decode")
    /\ Log(p, "Encode")
    /\ UNCHANGED <<fileVars, linesep, content, fixed_content, out, rh, wh, orig,
                   lastWriter>>

\* Variant: encode('cp1252', errors='ignore'): the characters cp1252 cannot
\* represent are dropped and the script goes on.
RECURSIVE Cp1252EncodeIgnore(_)
Cp1252EncodeIgnore(text) ==
    IF text = <<>> THEN <<>>
    ELSE LET bset == Cp1252BytesOf(Head(text)) IN
         (IF bset = {} THEN <<>> ELSE <<CHOOSE b \in bset : TRUE>>)
             \o Cp1252EncodeIgnore(Tail(text))

EncodeFailIgnored(p) ==
    /\ pc[p] = "encode"
    /\ ~Cp1252Encode(content[p]).ok
    /\ raw' = [raw EXCEPT ![p] = Cp1252EncodeIgnore(content[p])]
    /\ Goto(p, "decode")
    /\ Log(p, "Encode")
    /\ UNCHANGED <<fileVars, linesep, content, fixed_content, out, rh, wh, orig,
                   lastWriter>>

EncodeFail(p) ==
    /\ pc[p] = "encode"
    /\ ~Cp1252Encode(content[p]).ok
    /\ Raise(p, "UnicodeEncodeError", "encode")
    /\ Log(p, "EncodeFail")
    /\ UNCHANGED <<fileVars, linesep, locals, out, rh, wh, orig, lastWriter>>

\* fixed_content = (...).decode('utf-8')
Decode(p) ==
    /\ pc[p] = "decode"
    /\ Utf8Decode(raw[p]).ok
    /\ fixed_content' = [fixed_content EXCEPT ![p] = Utf8Decode(raw[p]).text]
    /\ Goto(p, "print_decoded")
    /\ Log(p, "Decode")
    /\ UNCHANGED <<fileVars, linesep, content, raw, out, rh, wh, orig, lastWriter>>

\* Variant: the decode failure is noted but the script goes on and writes the
\* text it read.
DecodeFailKeepGoing(p) ==
    /\ pc[p] = "decode"
    /\ ~Utf8Decode(raw[p]).ok
    /\ fixed_content' = [fixed_content EXCEPT ![p] = content[p]]
    /\ exc' = [exc EXCEPT ![p] = "UnicodeDecodeError"]
    /\ failed' = [failed EXCEPT ![p] = "decode"]
    /\ pc' = [pc EXCEPT ![p] = "print_decoded"]
    /\ Log(p, "DecodeFail")
    /\ UNCHANGED <<fileVars, linesep, content, raw, out, rh, wh, orig, lastWriter>>

DecodeFail(p) ==
    /\ pc[p] = "decode"
    /\ ~Utf8Decode(raw[p]).ok
    /\ Raise(p, "UnicodeDecodeError", "decode")
    /\ Log(p, "DecodeFail")
    /\ UNCHANGED <<fileVars, linesep, locals, out, rh, wh, orig, lastWriter>>

\* print("Successfully decoded content.")
PrintDecoded(p) ==
    /\ pc[p] = "print_decoded"
    /\ out' = [out EXCEPT ![p] = Append(@, "decoded")]
    /\ Goto(p, "open_w")
    /\ Log(p, "PrintDecoded")
    /\ UNCHANGED <<fileVars, linesep, locals, rh, wh, orig, lastWriter>>

\* with open(file_path, 'w', encoding='utf-8') as f: creates or truncates.
OpenWrite(p) ==
    /\ pc[p] = "open_w"
    /\ exists' = TRUE
    /\ disk' = <<>>
    /\ wh' = [wh EXCEPT ![p] = TRUE]
    /\ Goto(p, "write")
    /\ Log(p, "OpenWrite")
    /\ UNCHANGED <<linesep, locals, out, rh, orig, lastWriter>>

\* open() for writing on a read-only file raises PermissionError before
\* anything is truncated.
OpenWriteDenied(p) ==
    /\ pc[p] = "open_w"
    /\ exists
    /\ Raise(p, "PermissionError", "write")
    /\ Log(p, "OpenWriteDenied")
    /\ UNCHANGED <<fileVars, linesep, locals, out, rh, wh, orig, lastWriter>>

\* bs written at offset 0 of a file holding old: the handle was opened at
\* offset 0 without O_APPEND, so bytes another handle put beyond Len(bs)
\* stay.
WriteAt0(old, bs) == bs \o SubSeq(old, Len(bs) + 1, Len(old))

\* f.write(fixed_content): the text is buffered and reaches the file when the
\* with block's exit closes the handle.
Write(p) ==
    /\ pc[p] = "write"
    /\ disk' = WriteAt0(disk, WriteBytes(fixed_content[p], linesep))
    /\ wh' = [wh EXCEPT ![p] = FALSE]
    /\ lastWriter' = Append(lastWriter, p)
    /\ Goto(p, "print_fixed")
    /\ Log(p, "Write")
    /\ UNCHANGED <<exists, linesep, locals, out, rh, orig>>

\* The flush fails (disk full, I/O error) with OSError after k of the bytes
\* were written; the handle is closed all the same.
WriteFail(p) ==
    /\ pc[p] = "write"
    /\ \E k \in 0..(Len(WriteBytes(fixed_content[p], linesep)) - 1) :
           disk' = WriteAt0(disk, SubSeq(WriteBytes(fixed_content[p], linesep), 1, k))
    /\ wh' = [wh EXCEPT ![p] = FALSE]
    /\ Raise(p, "OSError", "write")
    /\ Log(p, "WriteFail")
    /\ UNCHANGED <<exists, linesep, locals, out, rh, orig, lastWriter>>

\* print(f"Fixed encoding for {file_path}")
PrintFixed(p) ==
    /\ pc[p] = "print_fixed"
    /\ out' = [out EXCEPT ![p] = Append(@, "fixed")]
    /\ Goto(p, "done")
    /\ Log(p, "PrintFixed")
    /\ UNCHANGED <<fileVars, linesep, locals, rh, wh, orig, lastWriter>>

\* Variant: the except Exception clause placed first, so that it takes every
\* exception.
ExceptMessageGenericFirst(e) == "other_error"

\* Variant: no except Exception clause.
ExceptMessageNoGeneric(e) ==
    IF e = "UnicodeEncodeError" THEN "encode_error"
    ELSE IF e = "UnicodeDecodeError" THEN "decode_error"
    ELSE "uncaught"

\* The except clauses, tried in order: UnicodeEncodeError, UnicodeDecodeError,
\* Exception.  The category of the line printed for an exception of class e,
\* "uncaught" if no clause matches.
ExceptMessage(e) ==
    IF e = "UnicodeEncodeError" THEN "encode_error"
    ELSE IF e = "UnicodeDecodeError" THEN "decode_error"
    ELSE IF e \in {"FileNotFoundError", "PermissionError", "OSError"}
         THEN "other_error"
    ELSE "uncaught"

\* Variant: the except clauses print nothing.
ExceptSilent(p) ==
    /\ pc[p] = "except"
    /\ pc' = [pc EXCEPT ![p] = "done"]
    /\ Log(p, "Except")
    /\ UNCHANGED <<fileVars, linesep, locals, exc, failed, out, rh, wh, orig,
                   lastWriter>>

\* The matching except clause prints its line and the script ends; an
\* exception no clause matches ends the script with a traceback.
Except(p) ==
    /\ pc[p] = "except"
    /\ out' = [out EXCEPT ![p] = IF ExceptMessage(exc[p]) = "uncaught"
                                 THEN @ ELSE Append(@, ExceptMessage(exc[p]))]
    /\ pc' = [pc EXCEPT ![p] = IF ExceptMessage(exc[p]) = "uncaught"
                               THEN "crashed" ELSE "done"]
    /\ Log(p, "Except")
    /\ UNCHANGED <<fileVars, linesep, locals, exc, failed, rh, wh, orig, lastWriter>>

Step(p) ==
    \/ OpenRead(p) \/ OpenReadMissing(p) \/ OpenReadDenied(p)
    \/ Read(p) \/ ReadFail(p)
    \/ Encode(p) \/ EncodeFail(p)
    \/ Decode(p) \/ DecodeFail(p)
    \/ PrintDecoded(p)
    \/ OpenWrite(p) \/ OpenWriteDenied(p)
    \/ Write(p) \/ WriteFail(p)
    \/ PrintFixed(p)
    \/ Except(p)

Next == \E p \in Procs : Step(p)

\* The state when the invocations in `running` start on a file that is
\* missing or holds at most n bytes.
InitWith(running, n) ==
    /\ exists \in BOOLEAN
    /\ disk \in SeqsUpTo(ByteAlphabet, n)
    /\ ~exists => disk = <<>>
    /\ linesep \in LineSeps
    /\ orig = [exists |-> exists, bytes |-> disk]
    /\ pc = [p \in Procs |-> IF p \in running THEN "open_r" ELSE "off"]
    /\ content = [p \in Procs |-> <<>>]
    /\ raw = [p \in Procs |-> <<>>]
    /\ fixed_content = [p \in Procs |-> <<>>]
    /\ exc = [p \in Procs |-> "none"]
    /\ out = [p \in Procs |-> <<>>]
    /\ rh = [p \in Procs |-> FALSE]
    /\ wh = [p \in Procs |-> FALSE]
    /\ failed = [p \in Procs |-> "none"]
    /\ trace = [p \in Procs |-> <<>>]
    /\ lastWriter = <<>>

\* One run of the script.
Init == InitWith({"A"}, MaxLen)
Spec == Init /\ [][Next]_vars

\* Two invocations of the script running concurrently against the same path.
InitConc == InitWith(Procs, MaxLenConc)
SpecConc == InitConc /\ [][Next]_vars

\* ------------------------------------------------------------ properties

\* The file as the run of invocation p may observe it in one value.
File == [exists |-> exists, bytes |-> disk]

Ran(p, ev) == \E i \in 1..Len(trace[p]) : trace[p][i] = ev
Terminal(p) == pc[p] \in {"done", "crashed"}

\* An I/O fault of the environment hit the run: a permission was denied or a
\* write failed.
IoFault(p) == exc[p] \in {"PermissionError", "OSError"}

\* C1: in a run where step 1 (open, read, decode), step 2 (encode to cp1252)
\* or step 3 (decode as UTF-8) fails, the file is never opened for writing,
\* not even tried, and holds what it held when the run started; the file is
\* opened for writing only after steps 1, 2 and 3 have all completed.
C1_FailureLeavesFileUntouched ==
    /\ failed["A"] \in {"read", "encode", "decode"} =>
          /\ ~Ran("A", "OpenWrite") /\ ~Ran("A", "OpenWriteDenied")
          /\ ~wh["A"]
          /\ File = orig
    /\ (Ran("A", "OpenWrite") \/ wh["A"]) =>
          /\ Ran("A", "Read") /\ Ran("A", "Encode") /\ Ran("A", "Decode")
          /\ failed["A"] \in {"none", "write"}

\* A run that ended after step 3 failed on a file that is not empty.
C1_Witness ==
    /\ pc["A"] = "done"
    /\ failed["A"] = "decode"
    /\ orig.bytes # <<>>

\* C3: a run on a readable file that is valid UTF-8 and holds a character
\* cp1252 cannot represent ends with UnicodeEncodeError raised by the encode
\* step, prints the encode-stage error line and nothing else, and leaves the
\* file as it was.
HasUnencodable(text) == \E i \in 1..Len(text) : Cp1252BytesOf(text[i]) = {}

C3_UnencodableFails ==
    ( /\ pc["A"] = "done"
      /\ Ran("A", "OpenRead")
      /\ Utf8Decode(orig.bytes).ok
      /\ HasUnencodable(Utf8Decode(orig.bytes).text) )
    => /\ exc["A"] = "UnicodeEncodeError"
       /\ failed["A"] = "encode"
       /\ out["A"] = <<"encode_error">>
       /\ File = orig

\* A finished run on the file C2 83 (the character U+0083), whose encode step
\* raised.
C3_Witness ==
    /\ pc["A"] = "done"
    /\ orig.bytes = <<194, 131>>
    /\ Ran("A", "EncodeFail")

\* C4: a run on a readable file that is valid UTF-8, all of whose characters
\* cp1252 represents, and whose cp1252 bytes are not valid UTF-8, ends with
\* UnicodeDecodeError raised by the decode step, prints the decode-stage
\* error line and nothing else, and leaves the file as it was.
C4_UndecodableFails ==
    ( /\ pc["A"] = "done"
      /\ Ran("A", "OpenRead")
      /\ Utf8Decode(orig.bytes).ok
      /\ Cp1252Encode(Utf8Decode(orig.bytes).text).ok
      /\ ~Utf8Decode(Cp1252Encode(Utf8Decode(orig.bytes).text).bytes).ok )
    => /\ exc["A"] = "UnicodeDecodeError"
       /\ failed["A"] = "decode"
       /\ out["A"] = <<"decode_error">>
       /\ File = orig

\* A finished run on the file C3 83 ("Ã", whose cp1252 byte C3 is a lone
\* UTF-8 lead byte), whose decode step raised.
C4_Witness ==
    /\ pc["A"] = "done"
    /\ orig.bytes = <<195, 131>>
    /\ Ran("A", "DecodeFail")

\* C2: when a run has ended, also one whose step 4 failed, the file holds
\* what it held at the start, or all four steps completed and the
\* write-success line was printed.
C2_ModifiedOnlyOnSuccess ==
    Terminal("A") =>
        \/ File = orig
        \/ /\ Ran("A", "Read") /\ Ran("A", "Encode") /\ Ran("A", "Decode")
           /\ Ran("A", "Write")
           /\ out["A"] = <<"decoded", "fixed">>

\* The category of the line reported when the repair step (step 3) raises
\* UnicodeDecodeError.
DecodeStageReport == ExceptMessage("UnicodeDecodeError")

\* C5: the report of a run whose read stage raised UnicodeDecodeError is not
\* the report a UnicodeDecodeError of the repair step gets.
C5_ReadFailureDistinguishable ==
    (Terminal("A") /\ Ran("A", "ReadFail")) => out["A"] # <<DecodeStageReport>>

\* The character a cp1252 byte stands for (empty for the unassigned bytes).
Cp1252CharsOf(b) ==
    IF b < 128 \/ (b >= 160 /\ b <= 255) THEN {b}
    ELSE {m[2] : m \in {x \in Cp1252High : x[1] = b}}

\* bytes.decode('cp1252').
RECURSIVE Cp1252Decode(_)
Cp1252Decode(bs) ==
    IF bs = <<>> THEN [ok |-> TRUE, text |-> <<>>]
    ELSE LET cset == Cp1252CharsOf(Head(bs)) IN
         IF cset = {} THEN [ok |-> FALSE, text |-> <<>>]
         ELSE LET rest == Cp1252Decode(Tail(bs)) IN
              IF rest.ok
              THEN [ok |-> TRUE, text |-> <<CHOOSE c \in cset : TRUE>> \o rest.text]
              ELSE rest

\* The inverse corruption: the text's UTF-8 bytes read as cp1252.
Corrupt(T) == Cp1252Decode(Utf8Encode(T))

Texts == SeqsUpTo(TextAlphabet, MaxTextLen)

\* C6: for every text T whose corruption is defined, a run that no I/O fault
\* hits, on a file holding the corrupted text, succeeds and leaves the file
\* holding exactly T.
C6_RoundTrip ==
    \A T \in Texts :
        ( /\ Terminal("A")
          /\ ~IoFault("A")
          /\ Corrupt(T).ok
          /\ orig = [exists |-> TRUE, bytes |-> Utf8Encode(Corrupt(T).text)] )
        => /\ out["A"] = <<"decoded", "fixed">>
           /\ File = [exists |-> TRUE, bytes |-> Utf8Encode(T)]

\* C7: a finished run printed the two success lines, or exactly one error
\* line, and nothing else.
C7_SuccessOrOneError ==
    Terminal("A") =>
        out["A"] \in { <<"decoded", "fixed">>, <<"encode_error">>,
                       <<"decode_error">>, <<"other_error">> }

\* C7, with the failure of step 4 accounted for: a finished run printed the
\* two success lines; or exactly the one error line of the stage that failed
\* in steps 1 to 3; or, when step 4 failed, the decode-transcode success line
\* followed by the generic error line.  No error line is ever followed by
\* another line.
C7_LinesByOutcome ==
    /\ Terminal("A") =>
        \/ failed["A"] = "none" /\ out["A"] = <<"decoded", "fixed">>
        \/ failed["A"] = "encode" /\ out["A"] = <<"encode_error">>
        \/ failed["A"] = "decode" /\ out["A"] = <<"decode_error">>
        \/ /\ failed["A"] = "read"
           /\ out["A"] = IF Ran("A", "ReadFail") THEN <<"decode_error">>
                         ELSE <<"other_error">>
        \/ failed["A"] = "write" /\ out["A"] = <<"decoded", "other_error">>
    /\ \A i \in 1..Len(out["A"]) :
           out["A"][i] \in {"encode_error", "decode_error", "other_error"}
               => i = Len(out["A"])

\* A finished run whose open for writing or write failed after the
\* decode-transcode success line was printed.
C7_Witness ==
    /\ pc["A"] = "done"
    /\ failed["A"] = "write"
    /\ out["A"] = <<"decoded", "other_error">>

\* The stage a step belongs to.
StageOf(ev) ==
    IF ev \in {"OpenRead", "OpenReadMissing", "OpenReadDenied"} THEN "open_r"
    ELSE IF ev \in {"Read", "ReadFail"} THEN "read"
    ELSE IF ev \in {"Encode", "EncodeFail"} THEN "encode"
    ELSE IF ev \in {"Decode", "DecodeFail"} THEN "decode"
    ELSE IF ev \in {"OpenWrite", "OpenWriteDenied"} THEN "open_w"
    ELSE IF ev \in {"Write", "WriteFail"} THEN "write"
    ELSE ev

FailEvents == {"OpenReadMissing", "OpenReadDenied", "ReadFail", "EncodeFail",
               "DecodeFail", "OpenWriteDenied", "WriteFail"}

ErrorLines(p) ==
    {i \in 1..Len(out[p]) :
        out[p][i] \in {"encode_error", "decode_error", "other_error"}}

\* C8: no exception leaves the script uncaught; a run that has not ended can
\* take a step and no stage is ever run twice (so every run ends, without
\* retry); the step after a failing step is the except clause, which ends the
\* run, with exactly one error line printed, the last line; and a run on a
\* path that names nothing prints the generic error line only and never tries
\* to open the file for writing.
C8_FailFastAllCaught ==
    /\ pc["A"] # "crashed"
    /\ Terminal("A") \/ ENABLED Next
    /\ \A i, j \in 1..Len(trace["A"]) :
           i # j => StageOf(trace["A"][i]) # StageOf(trace["A"][j])
    /\ \A i \in 1..Len(trace["A"]) :
           trace["A"][i] \in FailEvents =>
               /\ i >= Len(trace["A"]) - 1
               /\ i = Len(trace["A"]) - 1 =>
                     trace["A"][i + 1] = "Except" /\ pc["A"] = "done"
               /\ i = Len(trace["A"]) => pc["A"] = "except"
    /\ (Terminal("A") /\ failed["A"] # "none") =>
           /\ Cardinality(ErrorLines("A")) = 1
           /\ Len(out["A"]) \in ErrorLines("A")
    /\ (failed["A"] = "none") => ErrorLines("A") = {}
    /\ (Terminal("A") /\ ~orig.exists) =>
           /\ out["A"] = <<"other_error">>
           /\ ~Ran("A", "OpenWrite") /\ ~Ran("A", "OpenWriteDenied")
           /\ File = orig

\* A finished run on a path that names nothing.
C8_Witness ==
    /\ pc["A"] = "done"
    /\ ~orig.exists
    /\ exc["A"] = "FileNotFoundError"

\* C9: at every point of a run the file holds the complete original content
\* or the complete repaired content.
C9_NeverPartial ==
    \/ File = orig
    \/ /\ Ran("A", "Decode")
       /\ File = [exists |-> TRUE,
                  bytes |-> WriteBytes(fixed_content["A"], linesep)]

\* Both invocations ran to the end and printed the write-success line.
BothSucceeded ==
    \A p \in Procs : pc[p] = "done" /\ out[p] = <<"decoded", "fixed">>

\* Within a run the two handles are never open together, the write handle is
\* opened only after the read completed and its handle was closed, and no
\* handle is open once the run is in the except clauses or has ended.
HandlesDisjoint ==
    \A p \in Procs :
        /\ ~(rh[p] /\ wh[p])
        /\ wh[p] => Ran(p, "Read")
        /\ pc[p] \in {"except", "done", "crashed"} => ~rh[p] /\ ~wh[p]

\* C10: the handles of a run never overlap and none outlives the run; and
\* when two concurrent invocations have both run to the end the file holds
\* exactly the complete text written by the one whose write happened last.
C10_LastWriteWins ==
    /\ HandlesDisjoint
    /\ BothSucceeded =>
           File = [exists |-> TRUE,
                   bytes |-> WriteBytes(fixed_content[lastWriter[Len(lastWriter)]],
                                        linesep)]

====
